---------------------------- MODULE Spec2Model ----------------------------
(***************************************************************************)
(* A model of github.com/ericlagergren/sysinfo: the /proc/cpuinfo scanner  *)
(* (scanProc), its field decoders (atoi, parseSize, parseAddrSizes,        *)
(* parseTLB, split), the implementer/part name tables (CPU.Name) and the   *)
(* sysctl based detect/detectM1.                                           *)
(*                                                                         *)
(* Go strings are TLA+ strings (byte strings over printable ASCII, tab,    *)
(* newline, carriage return and form feed).  A Go int or uint64 is its     *)
(* bits.UintSize-bit pattern, written as a little-endian tuple of bytes    *)
(* without high zero bytes: 0 is <<>>, 5 is <<5>>, 1024 is <<0, 4>>, and   *)
(* -1 is eight bytes of 255.  Implementer (uint8) and Part (uint16) values *)
(* are plain numbers.                                                      *)
(***************************************************************************)
EXTENDS Integers, Sequences, FiniteSets, TLC

\* bits.UintSize of the 64-bit targets (amd64, arm64).
UintSize == 64

Min(a, b) == IF a < b THEN a ELSE b

(***************************************************************************)
(* Bytes and strings.                                                      *)
(***************************************************************************)

\* The printable ASCII characters in byte order, 32 (space) to 95 (_) and
\* 97 (a) to 126 (~).
AsciiLow == " !\"#$%&'()*+,-./0123456789:;<=>?@ABCDEFGHIJKLMNOPQRSTUVWXYZ[\\]^_"
AsciiHigh == "abcdefghijklmnopqrstuvwxyz{|}~"

\* 0-based index of the first occurrence of the one-character string c in
\* s, or -1: strings.IndexByte.
IndexByte(s, c) ==
    IF \E i \in 1..Len(s) : SubSeq(s, i, i) = c
    THEN (CHOOSE i \in 1..Len(s) :
             /\ SubSeq(s, i, i) = c
             /\ \A j \in 1..(i - 1) : SubSeq(s, j, j) # c) - 1
    ELSE -1

\* The byte value of a one-character string.
Ord(c) ==
    CASE c = "\t" -> 9
      [] c = "\n" -> 10
      [] c = "\f" -> 12
      [] c = "\r" -> 13
      [] IndexByte(AsciiLow, c) >= 0 -> 32 + IndexByte(AsciiLow, c)
      [] OTHER -> 97 + IndexByte(AsciiHigh, c)

\* The Go slice expression s[lo:hi], 0-based, hi exclusive.
Slice(s, lo, hi) == SubSeq(s, lo + 1, hi)

\* s < t in Go: byte-wise lexicographic order.
RECURSIVE StrLess(_, _)
StrLess(s, t) ==
    IF t = "" THEN FALSE
    ELSE IF s = "" THEN TRUE
    ELSE IF Head(s) = Head(t) THEN StrLess(Tail(s), Tail(t))
    ELSE Ord(Head(s)) < Ord(Head(t))

\* strings.Index: 0-based index of the first occurrence of sep in s, or -1.
Index(s, sep) ==
    LET hits == {i \in 0..(Len(s) - Len(sep)) : Slice(s, i, i + Len(sep)) = sep}
    IN  IF hits = {} THEN -1
        ELSE CHOOSE i \in hits : \A j \in hits : i <= j

HasSuffix(s, suffix) ==
    /\ Len(s) >= Len(suffix)
    /\ Slice(s, Len(s) - Len(suffix), Len(s)) = suffix

TrimSuffix(s, suffix) ==
    IF HasSuffix(s, suffix) THEN Slice(s, 0, Len(s) - Len(suffix)) ELSE s

\* unicode.IsSpace on the bytes of the model's alphabet.
IsSpace(c) == c \in {" ", "\t", "\n", "\r", "\f"}

RECURSIVE TrimLeft(_)
TrimLeft(s) ==
    IF s # "" /\ IsSpace(Head(s)) THEN TrimLeft(Tail(s)) ELSE s

RECURSIVE TrimRight(_)
TrimRight(s) ==
    IF s # "" /\ IsSpace(SubSeq(s, Len(s), Len(s)))
    THEN TrimRight(SubSeq(s, 1, Len(s) - 1))
    ELSE s

\* strings.TrimSpace.
TrimSpace(s) == TrimRight(TrimLeft(s))

\* strings.Split(s, sep) for a one-character sep: the pieces between the
\* separators, empty pieces included; always at least one piece.
RECURSIVE StringsSplit(_, _)
StringsSplit(s, sep) ==
    LET i == IndexByte(s, sep)
    IN  IF i < 0 THEN <<s>>
        ELSE <<Slice(s, 0, i)>> \o StringsSplit(Slice(s, i + 1, Len(s)), sep)

(***************************************************************************)
(* Machine integers: little-endian byte tuples.                            *)
(***************************************************************************)

\* Drop the high zero bytes.
RECURSIVE Norm(_)
Norm(n) ==
    IF n = <<>> THEN <<>>
    ELSE IF n[Len(n)] = 0 THEN Norm(SubSeq(n, 1, Len(n) - 1))
    ELSE n

RECURSIVE MulAddCarry(_, _, _)
MulAddCarry(n, k, carry) ==
    IF n = <<>>
    THEN IF carry = 0 THEN <<>>
         ELSE <<carry % 256>> \o MulAddCarry(<<>>, k, carry \div 256)
    ELSE LET t == Head(n) * k + carry
         IN  <<t % 256>> \o MulAddCarry(Tail(n), k, t \div 256)

\* The exact natural number n * k + d (k and d small).
NatMulAdd(n, k, d) == Norm(MulAddCarry(n, k, d))

\* The natural number k as a byte tuple: int(k) of a small k.
Nat2Bytes(k) == NatMulAdd(<<>>, 0, k)

\* n mod 2^bits: a conversion to, or an operation of, a bits-wide type.
Wrap(n, bits) == Norm(SubSeq(n, 1, Min(Len(n), bits \div 8)))

\* 2^bits - 1.
MaxOf(bits) == [i \in 1..(bits \div 8) |-> 255]

\* a < b as natural numbers.
RECURSIVE NatLess(_, _)
NatLess(a, b) ==
    IF Len(a) # Len(b) THEN Len(a) < Len(b)
    ELSE IF a = <<>> THEN FALSE
    ELSE IF a[Len(a)] # b[Len(b)] THEN a[Len(a)] < b[Len(b)]
    ELSE NatLess(SubSeq(a, 1, Len(a) - 1), SubSeq(b, 1, Len(b) - 1))

\* The sign bit of an int.
IsNegative(a) == Len(a) = UintSize \div 8 /\ a[Len(a)] >= 128

\* a < b as Go ints (two's complement).
IntLess(a, b) ==
    IF IsNegative(a) # IsNegative(b) THEN IsNegative(a) ELSE NatLess(a, b)

\* x * k in a Go int: the product modulo 2^UintSize.
IntMul(x, k) == Wrap(NatMulAdd(x, k, 0), UintSize)

\* The number held by a value of at most three bytes.
Small(n) ==
    (IF Len(n) >= 1 THEN n[1] ELSE 0)
    + (IF Len(n) >= 2 THEN 256 * n[2] ELSE 0)
    + (IF Len(n) >= 3 THEN 65536 * n[3] ELSE 0)

(***************************************************************************)
(* strconv.ParseUint(s, 0, bits.UintSize), as atoi calls it.               *)
(***************************************************************************)

\* c | 0x20 on the letters; no other byte is moved into 'a'..'z' by it.
lower(c) ==
    LET i == IndexByte("ABCDEFGHIJKLMNOPQRSTUVWXYZ", c)
    IN  IF i >= 0 THEN SubSeq(AsciiHigh, i + 1, i + 1) ELSE c

\* The digit a byte stands for, in any base up to 36, or -1.
DigitVal(c) ==
    IF IndexByte("0123456789", c) >= 0 THEN IndexByte("0123456789", c)
    ELSE IF IndexByte("abcdefghijklmnopqrstuvwxyz", lower(c)) >= 0
         THEN 10 + IndexByte("abcdefghijklmnopqrstuvwxyz", lower(c))
    ELSE -1

\* The digit loop of ParseUint: n is the value so far, us whether an
\* underscore was seen.  A digit that overflows returns maxVal at once.
RECURSIVE ParseDigits(_, _, _, _)
ParseDigits(s, base, n, us) ==
    IF s = "" THEN [val |-> n, err |-> "", underscores |-> us]
    ELSE LET c == Head(s)
             d == DigitVal(c)
         IN  IF c = "_" THEN ParseDigits(Tail(s), base, n, TRUE)
             ELSE IF d < 0 \/ d >= base
                  THEN [val |-> <<>>, err |-> "syntax", underscores |-> us]
             ELSE IF Len(NatMulAdd(n, base, 0)) > 8
                  THEN [val |-> MaxOf(UintSize), err |-> "range", underscores |-> us]
             ELSE IF Len(NatMulAdd(n, base, d)) > UintSize \div 8
                  THEN [val |-> MaxOf(UintSize), err |-> "range", underscores |-> us]
             ELSE ParseDigits(Tail(s), base, NatMulAdd(n, base, d), us)

\* strconv's underscoreOK after the base prefix: every underscore stands
\* between two digits, or between the prefix and a digit.  prev is "0"
\* after a digit or the prefix, "_" after an underscore, "^" at the start
\* and "!" after anything else.
RECURSIVE UnderscoreScan(_, _, _)
UnderscoreScan(s, hex, prev) ==
    IF s = "" THEN prev # "_"
    ELSE LET c == Head(s)
         IN  IF \/ IndexByte("0123456789", c) >= 0
                \/ hex /\ IndexByte("abcdef", lower(c)) >= 0
             THEN UnderscoreScan(Tail(s), hex, "0")
             ELSE IF c = "_"
                  THEN prev = "0" /\ UnderscoreScan(Tail(s), hex, "_")
             ELSE prev # "_" /\ UnderscoreScan(Tail(s), hex, "!")

underscoreOK(s) ==
    LET t == IF s # "" /\ Head(s) \in {"-", "+"} THEN Tail(s) ELSE s
        prefixed == Len(t) >= 2 /\ Head(t) = "0"
                    /\ lower(SubSeq(t, 2, 2)) \in {"b", "o", "x"}
    IN  IF prefixed
        THEN UnderscoreScan(Slice(t, 2, Len(t)), lower(SubSeq(t, 2, 2)) = "x", "0")
        ELSE UnderscoreScan(t, FALSE, "^")

\* ParseUint with base 0: the base is read off the prefix ("0x" 16, "0o"
\* and a bare leading "0" 8, "0b" 2, otherwise 10).
ParseUint(s) ==
    IF s = "" THEN [val |-> <<>>, err |-> "syntax"]
    ELSE LET second == IF Len(s) >= 3 THEN lower(SubSeq(s, 2, 2)) ELSE ""
             base == IF Head(s) # "0" THEN 10
                     ELSE CASE second = "b" -> 2
                            [] second = "o" -> 8
                            [] second = "x" -> 16
                            [] OTHER -> 8
             rest == IF Head(s) # "0" THEN s
                     ELSE IF second \in {"b", "o", "x"} THEN Slice(s, 2, Len(s))
                     ELSE Slice(s, 1, Len(s))
             r == ParseDigits(rest, base, <<>>, FALSE)
         IN  IF r.err = "" /\ r.underscores /\ ~underscoreOK(s)
             THEN [val |-> <<>>, err |-> "syntax"]
             ELSE [val |-> r.val, err |-> r.err]

\* atoi: the parsed value converted to int, the error dropped.
atoi(s) == Wrap(ParseUint(s).val, UintSize)


(***************************************************************************)
(* strconv.ParseFloat, as atof calls it.  A float64 is written m / 10^e    *)
(* with the trailing zeros of the fraction dropped: 48.00 is [m |-> 48,    *)
(* e |-> 0] and 49.15 is [m |-> 4915, e |-> 2].  The model reads unsigned  *)
(* decimal text of at most nine digits ("ddd", "ddd.ddd", ".ddd", "ddd."); *)
(* any other text is a syntax error here.  Signs, exponents, hexadecimal   *)
(* floats, "inf" and "nan" are not among the values the model feeds to it. *)
(***************************************************************************)

IsDigits(s) == \A i \in 1..Len(s) : IndexByte("0123456789", SubSeq(s, i, i)) >= 0

RECURSIVE DecimalOf(_, _)
DecimalOf(s, n) ==
    IF s = "" THEN n ELSE DecimalOf(Tail(s), 10 * n + DigitVal(Head(s)))

RECURSIVE FloatNorm(_, _)
FloatNorm(m, e) ==
    IF e > 0 /\ m % 10 = 0 THEN FloatNorm(m \div 10, e - 1) ELSE [m |-> m, e |-> e]

ParseFloat(s) ==
    LET dot == IndexByte(s, ".")
        int == IF dot < 0 THEN s ELSE Slice(s, 0, dot)
        frac == IF dot < 0 THEN "" ELSE Slice(s, dot + 1, Len(s))
    IN  IF IsDigits(int) /\ IsDigits(frac) /\ Len(int) + Len(frac) > 0
        THEN [val |-> FloatNorm(DecimalOf(int \o frac, 0), Len(frac)), err |-> ""]
        ELSE [val |-> [m |-> 0, e |-> 0], err |-> "syntax"]

\* atof: the parsed value, the error dropped.
atof(s) == ParseFloat(s).val

parseBool(s) == s = "yes"

(***************************************************************************)
(* The line and field decoders.                                            *)
(***************************************************************************)

\* split with the value left untrimmed.
split_untrimmed(s) ==
    LET i == IndexByte(s, ":")
    IN  [key |-> IF i >= 0 THEN TrimSpace(Slice(s, 0, i)) ELSE "",
         value |-> IF i + 1 < Len(s) THEN Slice(s, i + 1, Len(s)) ELSE ""]

\* split: the key before the first colon and the value after it.  Without
\* a colon i is -1, so the key stays empty and the value is the whole line.
split(s) ==
    LET i == IndexByte(s, ":")
    IN  [key |-> IF i >= 0 THEN TrimSpace(Slice(s, 0, i)) ELSE "",
         value |-> IF i + 1 < Len(s) THEN TrimSpace(Slice(s, i + 1, Len(s))) ELSE ""]

\* parseSize with the MB case multiplying by 1024 once.
parseSize_MBasKB(s) ==
    LET i == IndexByte(s, " ")
        x == atoi(Slice(s, 0, i))
        unit == Slice(s, i + 1, Len(s))
    IN  IF i < 0 \/ i = Len(s) THEN <<>>
        ELSE CASE unit = "KB" -> IntMul(x, 1024)
               [] unit = "MB" -> IntMul(x, 1024)
               [] OTHER -> <<>>

\* parseSize: "<n> KB" or "<n> MB" in bytes.
parseSize(s) ==
    LET i == IndexByte(s, " ")
        x == atoi(Slice(s, 0, i))
        unit == Slice(s, i + 1, Len(s))
    IN  IF i < 0 \/ i = Len(s) THEN <<>>
        ELSE CASE unit = "KB" -> IntMul(x, 1024)
               [] unit = "MB" -> IntMul(x, 1024 * 1024)
               [] OTHER -> <<>>

\* parseAddrSizes: "<p> bits physical, <v> bits virtual".
parseAddrSizes(s) ==
    LET sep == ", "
        i == Index(s, sep)
        lhs == Slice(s, 0, i)
        rhs == Slice(s, i + Len(sep), Len(s))
    IN  IF i < 0 \/ i + Len(sep) = Len(s) THEN [phys |-> <<>>, virt |-> <<>>]
        ELSE IF ~HasSuffix(lhs, " bits physical") THEN [phys |-> <<>>, virt |-> <<>>]
        ELSE IF ~HasSuffix(rhs, " bits virtual") THEN [phys |-> <<>>, virt |-> <<>>]
        ELSE [phys |-> atoi(TrimSuffix(lhs, " bits physical")),
              virt |-> atoi(TrimSuffix(rhs, " bits virtual"))]

\* parseTLB: "<n> <k>K pages" or "<n> <k>M pages".
parseTLB(s) ==
    LET s1 == TrimSuffix(s, " pages")
        unit == CASE HasSuffix(s1, "K") -> 1024
                  [] HasSuffix(s1, "M") -> 1024 * 1024
                  [] OTHER -> 0
        s2 == Slice(s1, 0, Len(s1) - 1)
        i == IndexByte(s2, " ")
    IN  IF ~HasSuffix(s, " pages") THEN [n |-> <<>>, page |-> <<>>]
        ELSE IF unit = 0 THEN [n |-> <<>>, page |-> <<>>]
        ELSE IF i < 0 \/ i = Len(s2) THEN [n |-> <<>>, page |-> <<>>]
        ELSE [n |-> atoi(Slice(s2, 0, i)),
              page |-> IntMul(atoi(Slice(s2, i + 1, Len(s2))), unit)]

(***************************************************************************)
(* The slice expressions of split and of the decoders.  A slice            *)
(* expression s[lo:hi] outside 0 <= lo <= hi <= len(s) is a run-time panic; *)
(* each predicate says that every slice expression the function reaches   *)
(* on s is inside it.  strings.IndexByte, Index, HasSuffix, TrimSuffix,    *)
(* TrimSpace, Split and strconv.ParseUint return for every string.         *)
(***************************************************************************)

InRange(s, lo, hi) == 0 <= lo /\ lo <= hi /\ hi <= Len(s)

\* split: s[:i] under i >= 0 and s[i+1:] under i+1 < len(s).
splitRuns(s) ==
    LET i == IndexByte(s, ":")
    IN  /\ i >= 0 => InRange(s, 0, i)
        /\ i + 1 < Len(s) => InRange(s, i + 1, Len(s))

\* parseSize: s[:i] and s[i+1:] behind the early return.
parseSizeRuns(s) ==
    LET i == IndexByte(s, " ")
    IN  \/ i < 0 \/ i = Len(s)
        \/ InRange(s, 0, i) /\ InRange(s, i + 1, Len(s))

\* parseAddrSizes: s[:i] and s[i+len(sep):] behind the early return.
parseAddrSizesRuns(s) ==
    LET sep == ", "
        i == Index(s, sep)
    IN  \/ i < 0 \/ i + Len(sep) = Len(s)
        \/ InRange(s, 0, i) /\ InRange(s, i + Len(sep), Len(s))

\* parseTLBRuns without the default case of the unit switch.
parseTLBRuns_noDefault(s) ==
    LET s1 == TrimSuffix(s, " pages")
        s2 == Slice(s1, 0, Len(s1) - 1)
        i == IndexByte(s2, " ")
    IN  \/ ~HasSuffix(s, " pages")
        \/ /\ InRange(s1, 0, Len(s1) - 1)
           /\ \/ i < 0 \/ i = Len(s2)
              \/ InRange(s2, 0, i) /\ InRange(s2, i + 1, Len(s2))

\* parseTLB: s[:len(s)-1] behind the unit switch, then s[:i] and s[i+1:]
\* behind the early return.
parseTLBRuns(s) ==
    LET s1 == TrimSuffix(s, " pages")
        s2 == Slice(s1, 0, Len(s1) - 1)
        i == IndexByte(s2, " ")
    IN  \/ ~HasSuffix(s, " pages")
        \/ ~HasSuffix(s1, "K") /\ ~HasSuffix(s1, "M")
        \/ /\ InRange(s1, 0, Len(s1) - 1)
           /\ \/ i < 0 \/ i = Len(s2)
              \/ InRange(s2, 0, i) /\ InRange(s2, i + 1, Len(s2))


(***************************************************************************)
(* Implementers, parts and their names.                                    *)
(***************************************************************************)

\* Implementer is a uint8: the ASCII code of a letter.
ARMLtd == Ord("A")
Broadcom == Ord("B")
Cavium == Ord("C")
Fujitsu == Ord("F")
NVIDIA == Ord("N")
HiSilicon == Ord("H")
Qualcomm == Ord("Q")
Samsung == Ord("S")
Intel == Ord("i")
Apple == Ord("a")

\* Part is a uint16.
ARM926EJS == \H926
ARM11MPCore == \Hb02
ARM1136JS == \Hb36
ARM1156T2S == \Hb56
ARM1176JZS == \Hb76
CortexA8 == \Hc08
CortexA9 == \Hc09
CortexA15 == \Hc0f
CortexM0 == \Hc20
CortexM3 == \Hc23
CortexM4 == \Hc24
CortexM55 == \Hd22
CortexA34 == \Hd02
CortexA35 == \Hd04
CortexA53 == \Hd03
CortexA55 == \Hd05
CortexA57 == \Hd07
CortexA72 == \Hd08
CortexA73 == \Hd09
CortexA75 == \Hd0a
CortexA76 == \Hd0b
CortexA77 == \Hd0d
CortexA78 == \Hd41
CortexX1 == \Hd44
CortexX1C == \Hd4c
NeoverseN1 == \Hd0c
NeoverseN2 == \Hd49
NeoverseV1 == \Hd40
Firestorm == \H23
Icestorm == \H22
ThunderX2T99 == \H516
ThunderX2T99_2 == \Haf
ThunderXT88 == \Ha1
A64FX == \H001
Carmel == \H004
TSV110 == \Hd01
Krait == \H06f
Kryo == \H201
Kryo_2 == \H205
Kryo_3 == \H211
Kryo2xxGold == \H800
Kryo2xxSilver == \H801
Kryo3xxGold == \H802
Kryo3xxSilver == \H803
Kryo4xxGold == \H804
Kryo4xxSilver == \H805
Falkor == \Hc00
Saphira == \Hc01

armPartName(p) ==
    CASE p = ARM926EJS -> "ARM926EJ-S"
      [] p = ARM11MPCore -> "ARM11 MPCore"
      [] p = ARM1136JS -> "ARM1136J-S"
      [] p = ARM1156T2S -> "ARM1156T2-S"
      [] p = ARM1176JZS -> "ARM1176JZ-S"
      [] p = CortexA8 -> "Cortex-A8"
      [] p = CortexA9 -> "Cortex-A9"
      [] p = CortexA15 -> "Cortex-A15"
      [] p = CortexM0 -> "Cortex-M0"
      [] p = CortexM3 -> "Cortex-M3"
      [] p = CortexM4 -> "Cortex-M4"
      [] p = CortexM55 -> "Cortex-M55"
      [] p = CortexA34 -> "Cortex-A34"
      [] p = CortexA35 -> "Cortex-A35"
      [] p = CortexA53 -> "Cortex-A53"
      [] p = CortexA55 -> "Cortex-A55"
      [] p = CortexA57 -> "Cortex-A57"
      [] p = CortexA72 -> "Cortex-A72"
      [] p = CortexA73 -> "Cortex-A73"
      [] p = CortexA75 -> "Cortex-A75"
      [] p = CortexA76 -> "Cortex-A76"
      [] p = CortexA77 -> "Cortex-A77"
      [] p = CortexA78 -> "Cortex-A78"
      [] p = CortexX1 -> "Cortex-X1"
      [] p = CortexX1C -> "Cortex-X1C"
      [] p = NeoverseN1 -> "neoverse-n1"
      [] p = NeoverseN2 -> "neoverse-n2"
      [] p = NeoverseV1 -> "neoverse-v1"
      [] p = Firestorm -> "M1 Firestorm"
      [] p = Icestorm -> "M1 Icestorm"
      [] OTHER -> "generic"

broadcomPartName(p) ==
    CASE p \in {ThunderX2T99, ThunderX2T99_2} -> "ThunderX2T99"
      [] p = ThunderXT88 -> "ThunderXT88"
      [] OTHER -> "generic"

fujitsuPartName(p) ==
    CASE p = A64FX -> "A64FX"
      [] OTHER -> "generic"

nvidiaPartName(p) ==
    CASE p = Carmel -> "Carmel"
      [] OTHER -> "generic"

hiSiliconPartName(p) ==
    CASE p = TSV110 -> "TSV110"
      [] OTHER -> "generic"

qualcommPartName(p) ==
    CASE p = Krait -> "Krait"
      [] p \in {Kryo, Kryo_2, Kryo_3} -> "Kryo"
      [] p \in {Kryo2xxGold, Kryo2xxSilver} -> "Cortex-A73"
      [] p \in {Kryo3xxGold, Kryo3xxSilver} -> "Cortex-A75"
      [] p \in {Kryo4xxGold, Kryo4xxSilver} -> "Cortex-A76"
      [] p = Falkor -> "Falkor"
      [] p = Saphira -> "Saphira"
      [] OTHER -> "generic"

samsungPartName(p) == "generic"

\* Name without Cavium in the Broadcom case.
Name_noCavium(cpu) ==
    CASE cpu.Impl = ARMLtd -> armPartName(cpu.Part)
      [] cpu.Impl = Broadcom -> broadcomPartName(cpu.Part)
      [] cpu.Impl = Fujitsu -> fujitsuPartName(cpu.Part)
      [] cpu.Impl = NVIDIA -> nvidiaPartName(cpu.Part)
      [] cpu.Impl = HiSilicon -> hiSiliconPartName(cpu.Part)
      [] cpu.Impl = Qualcomm -> qualcommPartName(cpu.Part)
      [] cpu.Impl = Samsung -> samsungPartName(cpu.Part)
      [] OTHER -> "generic"

\* CPU.Name: the model name of the record's (Impl, Part).
Name(cpu) ==
    CASE cpu.Impl = ARMLtd -> armPartName(cpu.Part)
      [] cpu.Impl \in {Broadcom, Cavium} -> broadcomPartName(cpu.Part)
      [] cpu.Impl = Fujitsu -> fujitsuPartName(cpu.Part)
      [] cpu.Impl = NVIDIA -> nvidiaPartName(cpu.Part)
      [] cpu.Impl = HiSilicon -> hiSiliconPartName(cpu.Part)
      [] cpu.Impl = Qualcomm -> qualcommPartName(cpu.Part)
      [] cpu.Impl = Samsung -> samsungPartName(cpu.Part)
      [] OTHER -> "generic"

(***************************************************************************)
(* Info, CPU, Cache and Pair.                                              *)
(***************************************************************************)

\* The zero value of Cache.
ZeroCache ==
    [Inst |-> <<>>, L1 |-> <<>>, L2 |-> <<>>, L3 |-> <<>>,
     Alignment |-> <<>>, Flush |-> <<>>]

\* The zero value of CPU ("var c CPU"): a nil slice is <<>>.
ZeroCPU ==
    [Proc |-> <<>>, BogoMIPS |-> [m |-> 0, e |-> 0], Features |-> <<>>,
     Rev |-> <<>>, ModelName |-> "", MicroArch |-> "",
     Impl |-> 0, Arch |-> <<>>, Variant |-> <<>>, Part |-> 0,
     VendorID |-> "", Family |-> <<>>, Model |-> <<>>, Microcode |-> <<>>,
     Freq |-> [m |-> 0, e |-> 0], Cache |-> ZeroCache,
     PhysID |-> <<>>, Siblings |-> <<>>, CoreID |-> <<>>, Cores |-> <<>>,
     APICID |-> <<>>, InitAPICID |-> <<>>, FPU |-> FALSE,
     FPUExceptions |-> FALSE, CPUIDLevel |-> <<>>, WP |-> FALSE,
     Bugs |-> <<>>, AddrSizes |-> [Phys |-> <<>>, Virt |-> <<>>],
     PowerMgmt |-> "", TLB |-> [N |-> <<>>, PageSize |-> <<>>]]

\* The zero value of Info.
ZeroInfo == [CPUs |-> <<>>, Misc |-> <<>>]

Pair(k, v) == [Key |-> k, Value |-> v]

\* The conversion Implementer(x) of an int x.
ToImplementer(x) == Small(Wrap(x, 8))

\* ToPart with Part declared a uint8.
ToPart_uint8(x) == Small(Wrap(x, 8))

\* The conversion Part(x) of an int x.
ToPart(x) == Small(Wrap(x, 16))

(***************************************************************************)
(* scanProc.                                                               *)
(***************************************************************************)

\* The case labels of scanProc's switch other than "".
DispatchKeys ==
    {"processor", "BogoMIPS", "bogomips", "Features", "CPU implementer",
     "CPU architecture", "CPU variant", "CPU part", "CPU revision",
     "stepping", "model name", "vendor_id", "cpu family", "model",
     "microcode", "cpu MHz", "cache size", "physical id", "siblings",
     "core id", "cpu cores", "apicid", "initial apicid", "fpu",
     "fpu_exception", "cpuid level", "wp", "flags", "bugs", "clflush size",
     "cache_alignment", "address sizes", "power management", "TLB size"}

\* The cases of the switch that assign a field of the accumulator c.
setField(c, k, v) ==
    CASE k = "processor" -> [c EXCEPT !.Proc = atoi(v)]
      [] k \in {"BogoMIPS", "bogomips"} -> [c EXCEPT !.BogoMIPS = atof(v)]
      [] k = "Features" -> [c EXCEPT !.Features = StringsSplit(v, " ")]
      [] k = "CPU implementer" -> [c EXCEPT !.Impl = ToImplementer(atoi(v))]
      [] k = "CPU architecture" -> [c EXCEPT !.Arch = atoi(v)]
      [] k = "CPU variant" -> [c EXCEPT !.Variant = atoi(v)]
      [] k = "CPU part" -> [c EXCEPT !.Part = ToPart(atoi(v))]
      [] k \in {"CPU revision", "stepping"} -> [c EXCEPT !.Rev = atoi(v)]
      [] k = "model name" -> [c EXCEPT !.ModelName = v]
      [] k = "vendor_id" -> [c EXCEPT !.VendorID = v]
      [] k = "cpu family" -> [c EXCEPT !.Family = atoi(v)]
      [] k = "model" -> [c EXCEPT !.Model = atoi(v)]
      [] k = "microcode" -> [c EXCEPT !.Microcode = atoi(v)]
      [] k = "cpu MHz" -> [c EXCEPT !.Freq = atof(v)]
      [] k = "cache size" -> [c EXCEPT !.Cache.L2 = parseSize(v)]
      [] k = "physical id" -> [c EXCEPT !.PhysID = atoi(v)]
      [] k = "siblings" -> [c EXCEPT !.Siblings = atoi(v)]
      [] k = "core id" -> [c EXCEPT !.CoreID = atoi(v)]
      [] k = "cpu cores" -> [c EXCEPT !.Cores = atoi(v)]
      [] k = "apicid" -> [c EXCEPT !.APICID = atoi(v)]
      [] k = "initial apicid" -> [c EXCEPT !.InitAPICID = atoi(v)]
      [] k = "fpu" -> [c EXCEPT !.FPU = parseBool(v)]
      [] k = "fpu_exception" -> [c EXCEPT !.FPUExceptions = parseBool(v)]
      [] k = "cpuid level" -> [c EXCEPT !.CPUIDLevel = atoi(v)]
      [] k = "wp" -> [c EXCEPT !.WP = parseBool(v)]
      [] k = "flags" -> [c EXCEPT !.Features = StringsSplit(v, " ")]
      [] k = "bugs" -> [c EXCEPT !.Bugs = StringsSplit(v, " ")]
      [] k = "clflush size" -> [c EXCEPT !.Cache.Flush = atoi(v)]
      [] k = "cache_alignment" -> [c EXCEPT !.Cache.Alignment = atoi(v)]
      [] k = "address sizes" ->
            [c EXCEPT !.AddrSizes = [Phys |-> parseAddrSizes(v).phys,
                                     Virt |-> parseAddrSizes(v).virt]]
      [] k = "power management" -> [c EXCEPT !.PowerMgmt = v]
      [] k = "TLB size" ->
            [c EXCEPT !.TLB = [N |-> parseTLB(v).n, PageSize |-> parseTLB(v).page]]
      [] OTHER -> c

\* The accumulator after the body of the loop has run on one line.
lineCPU(acc, line) == setField(acc, split(line).key, split(line).value)

\* lineInfo appending only what the report does not hold yet.
lineInfo_dedup(info, acc, line) ==
    LET k == split(line).key
        v == split(line).value
        has(s, x) == \E i \in 1..Len(s) : s[i] = x
    IN  CASE k = "" ->
                IF has(info.CPUs, acc) THEN info
                ELSE [info EXCEPT !.CPUs = Append(@, acc)]
          [] k \in DispatchKeys -> info
          [] OTHER ->
                IF has(info.Misc, Pair(k, v)) THEN info
                ELSE [info EXCEPT !.Misc = Append(@, Pair(k, v))]

\* lineInfo with the default case storing the Pair instead of appending it.
lineInfo_overwrite(info, acc, line) ==
    LET k == split(line).key
        v == split(line).value
    IN  CASE k = "" -> [info EXCEPT !.CPUs = Append(@, acc)]
          [] k \in DispatchKeys -> info
          [] OTHER -> [info EXCEPT !.Misc = <<Pair(k, v)>>]

\* The report after the body of the loop has run on one line: an empty key
\* appends the accumulator, a key of no case appends a Pair.
lineInfo(info, acc, line) ==
    LET k == split(line).key
        v == split(line).value
    IN  CASE k = "" -> [info EXCEPT !.CPUs = Append(@, acc)]
          [] k \in DispatchKeys -> info
          [] OTHER -> [info EXCEPT !.Misc = Append(@, Pair(k, v))]

\* The body of the loop runs on the line: split and the decoder of the
\* line's key reach no slice expression out of range.
lineRuns(line) ==
    /\ splitRuns(line)
    /\ split(line).key = "cache size" => parseSizeRuns(split(line).value)
    /\ split(line).key = "address sizes" => parseAddrSizesRuns(split(line).value)
    /\ split(line).key = "TLB size" => parseTLBRuns(split(line).value)

\* lessProc with the comparison turned round.
lessProc_descending(a, b) == IntLess(b.Proc, a.Proc)

\* The less functions of the two sort.Slice calls.
lessProc(a, b) == IntLess(a.Proc, b.Proc)
lessKey_descending(a, b) == StrLess(b.Key, a.Key)
lessKey(a, b) == StrLess(a.Key, b.Key)

\* The less function of the sort.Slice call on the slice named by.
less(by, a, b) == IF by = "CPUs" THEN lessProc(a, b) ELSE lessKey(a, b)

Perms(n) == {p \in [1..n -> 1..n] : \A i, j \in 1..n : p[i] = p[j] => i = j}

\* sort.Slice on o.CPUs or o.Misc: the slice is left in some order sorted
\* by less.  The sort is not stable, so the order of elements that less
\* does not tell apart is any.
SortSlice(s, by) ==
    {[i \in 1..Len(s) |-> s[p[i]]] :
        p \in {q \in Perms(Len(s)) :
                  \A i, j \in 1..Len(s) : i < j => ~less(by, s[q[j]], s[q[i]])}}

\* bufio.ScanLines on the unread part of the buffer: the next line without
\* its "\n" and without one trailing "\r", and the number of bytes taken.
ScanLines(data) ==
    LET i == IndexByte(data, "\n")
        raw == IF i >= 0 THEN Slice(data, 0, i) ELSE data
    IN  [advance |-> IF i >= 0 THEN i + 1 ELSE Len(data),
         token |-> IF HasSuffix(raw, "\r") THEN Slice(raw, 0, Len(raw) - 1) ELSE raw]


(***************************************************************************)
(* State.                                                                  *)
(*   buf   the bytes of /proc/cpuinfo                                      *)
(*   pos   the number of bytes of buf the bufio.Scanner has consumed       *)
(*   c     scanProc's accumulator ("var c CPU")                            *)
(*   o     the Info being built and returned                               *)
(*   pc    where the call is: "read" before os.ReadFile returns, "scan" in *)
(*         scanProc's loop, "call" before and "done" after a call          *)
(*   sys   the answers of the host's sysctl store, by name                 *)
(*   arg   the argument of a decoder call                                  *)
(*   ret   the value a decoder call returned                               *)
(***************************************************************************)
VARIABLES buf, pos, c, o, pc, sys, arg, ret

vars == <<buf, pos, c, o, pc, sys, arg, ret>>

\* No sysctl store (the textual platform) and no decoder call.
NoSysctl == <<>>
NoCall == [fn |-> "", s |-> ""]

(***************************************************************************)
(* Detect on the textual platform: detect reads /proc/cpuinfo and hands    *)
(* the bytes to scanProc.  The file's content is the host's: any sequence  *)
(* of at most MaxLines lines of ProcLines, the last one possibly cut short *)
(* before its newline.  The model's lines are all shorter than the         *)
(* scanner's token limit (bufio.MaxScanTokenSize), so Scan returns every   *)
(* line.                                                                   *)
(***************************************************************************)

MaxLines == 4

ProcLines ==
    {"",
     "processor\t: 0",
     "processor\t: 1",
     "CPU implementer\t: 0x41",
     "CPU part\t: 0xd08",
     "Hardware\t: BCM2711",
     "Model\t\t: Pi 4"}

\* The lines a file may end in without a newline.
CutLines == {"processor\t: 1", "Hardware\t: BCM2711"}

NumLines(s) == Cardinality({i \in 1..Len(s) : SubSeq(s, i, i) = "\n"})

InitProc ==
    /\ buf = ""
    /\ pos = 0
    /\ c = ZeroCPU
    /\ o = ZeroInfo
    /\ pc = "read"
    /\ sys = NoSysctl
    /\ arg = NoCall
    /\ ret = <<>>

\* The host's file holds one more line.
FileLine(l) ==
    /\ pc = "read"
    /\ NumLines(buf) < MaxLines
    /\ buf = "" \/ HasSuffix(buf, "\n")
    /\ buf' = buf \o l \o "\n"
    /\ UNCHANGED <<pos, c, o, pc, sys, arg, ret>>

\* The host's file ends in a line without a newline.
FileCutLine(l) ==
    /\ pc = "read"
    /\ NumLines(buf) < MaxLines
    /\ buf = "" \/ HasSuffix(buf, "\n")
    /\ buf' = buf \o l
    /\ UNCHANGED <<pos, c, o, pc, sys, arg, ret>>

\* detect: os.ReadFile fails and detect returns Info{}.
DetectNoFile ==
    /\ pc = "read"
    /\ buf = ""
    /\ pc' = "done"
    /\ o' = ZeroInfo
    /\ UNCHANGED <<buf, pos, c, sys, arg, ret>>

\* detect: os.ReadFile returns buf and scanProc starts on a zero Info with
\* a zero accumulator.
DetectScan ==
    /\ pc = "read"
    /\ pc' = "scan"
    /\ pos' = 0
    /\ c' = ZeroCPU
    /\ o' = ZeroInfo
    /\ UNCHANGED <<buf, sys, arg, ret>>

\* The line the scanner returns next.
NextToken == ScanLines(Slice(buf, pos, Len(buf)))

\* scanProc: one turn of "for s.Scan()".
ScanLine ==
    /\ pc = "scan"
    /\ pos < Len(buf)
    /\ IF lineRuns(NextToken.token)
       THEN /\ pos' = pos + NextToken.advance
            /\ c' = lineCPU(c, NextToken.token)
            /\ o' = lineInfo(o, c, NextToken.token)
            /\ pc' = pc
       ELSE /\ pc' = "panic"
            /\ UNCHANGED <<pos, c, o>>
    /\ UNCHANGED <<buf, sys, arg, ret>>

\* ScanEnd appending the accumulator when the buffer does not end in an
\* empty-key line.
ScanEnd_flush ==
    /\ pc = "scan"
    /\ pos = Len(buf)
    /\ \E cpus \in SortSlice(IF c = ZeroCPU THEN o.CPUs ELSE Append(o.CPUs, c), "CPUs"),
          misc \in SortSlice(o.Misc, "Misc") :
          o' = [CPUs |-> cpus, Misc |-> misc]
    /\ pc' = "done"
    /\ UNCHANGED <<buf, pos, c, sys, arg, ret>>

\* scanProc: Scan returns false at the end of the buffer, the two slices
\* are sorted and scanProc returns.
ScanEnd ==
    /\ pc = "scan"
    /\ pos = Len(buf)
    /\ \E cpus \in SortSlice(o.CPUs, "CPUs"), misc \in SortSlice(o.Misc, "Misc") :
          o' = [CPUs |-> cpus, Misc |-> misc]
    /\ pc' = "done"
    /\ UNCHANGED <<buf, pos, c, sys, arg, ret>>

NextScan == ScanLine \/ ScanEnd

NextProc ==
    \/ \E l \in ProcLines : FileLine(l)
    \/ \E l \in CutLines : FileCutLine(l)
    \/ DetectNoFile
    \/ DetectScan
    \/ NextScan

\* Detect on the textual platform.
Spec == InitProc /\ [][NextProc]_vars


(***************************************************************************)
(* scanProc on a file of one record: a "processor", a "CPU implementer", a *)
(* "CPU part" and a "CPU architecture" line, or one line of a key that a   *)
(* "Matches:" comment of CPU or Cache names, and then a blank line.        *)
(***************************************************************************)

MaxDigits == 2

DigitChars == {"0", "8", "x"}

\* Every text of at most n characters of DigitChars.
RECURSIVE Texts(_)
Texts(n) ==
    IF n = 0 THEN {""}
    ELSE Texts(n - 1) \cup {t \o ch : t \in Texts(n - 1), ch \in DigitChars}

\* Texts of numbers at the edges of uint8, uint16 and int.
EdgeTexts ==
    {"0x41", "0x141", "255", "256", "0xd08", "0x1d08", "65535", "65536",
     "9007199254740992", "18446744073709551616"}

NumberTexts == Texts(MaxDigits) \cup EdgeTexts

\* The keys the "Matches:" comments name.
MatchesKeys ==
    {"processor", "BogoMIPS", "bogomips", "Features", "flags", "CPU revision",
     "stepping", "model name", "CPU implementer", "CPU architecture",
     "CPU variant", "CPU part", "vendor_id", "cpu family", "model",
     "microcode", "cpu MHz", "physical id", "siblings", "core id", "cores",
     "apicid", "initial apicid", "fpu", "fpu_exceptions", "cpuid level",
     "wp", "bugs", "address sizes", "power management", "TLB size",
     "cache size", "cache_alignment", "clflush size"}

MatchesValues == {"4", "yes", "fpu vme", "fpu  vme", ""}

RecordFiles ==
    {"processor\t: 0\nCPU implementer\t: " \o a \o "\nCPU part\t: " \o b
        \o "\nCPU architecture: 8\n\n" : a \in NumberTexts, b \in NumberTexts}
    \cup {k \o "\t: " \o v \o "\n\n" : k \in MatchesKeys, v \in MatchesValues}

InitRecord ==
    /\ buf \in RecordFiles
    /\ pos = 0
    /\ c = ZeroCPU
    /\ o = ZeroInfo
    /\ pc = "scan"
    /\ sys = NoSysctl
    /\ arg = NoCall
    /\ ret = <<>>

\* scanProc on a one-record file.
SpecRecord == InitRecord /\ [][NextScan]_vars

(***************************************************************************)
(* What the claims speak of: the lines of a file, the text around a        *)
(* line's first colon, and the number a text writes.                       *)
(***************************************************************************)

\* The lines of a file: the text between the newlines.
FileLines(file) ==
    LET pieces == StringsSplit(file, "\n")
    IN  IF pieces[Len(pieces)] = "" THEN SubSeq(pieces, 1, Len(pieces) - 1)
        ELSE pieces

HasColon(line) == \E i \in 1..Len(line) : SubSeq(line, i, i) = ":"

FirstColon(line) ==
    CHOOSE i \in 1..Len(line) :
        /\ SubSeq(line, i, i) = ":"
        /\ \A j \in 1..(i - 1) : SubSeq(line, j, j) # ":"

\* The trimmed text before and after the first colon of a line with one.
KeyText(line) == TrimSpace(SubSeq(line, 1, FirstColon(line) - 1))
ValueText(line) == TrimSpace(SubSeq(line, FirstColon(line) + 1, Len(line)))

\* A line of a recognised key, and a line of a key that no case names.
Recognised(line) == HasColon(line) /\ KeyText(line) \in DispatchKeys
Unrecognised(line) ==
    HasColon(line) /\ KeyText(line) # "" /\ KeyText(line) \notin DispatchKeys

\* A line that ends a record: its key is empty.
EndsRecord(line) == ~HasColon(line) \/ KeyText(line) = ""

IsHexDigits(s) ==
    \A i \in 1..Len(s) : IndexByte("0123456789abcdefABCDEF", SubSeq(s, i, i)) >= 0

\* An unsigned number written in decimal, or in hexadecimal after "0x".
IsDecimalText(s) == s # "" /\ IsDigits(s)
IsHexText(s) == Len(s) >= 3 /\ SubSeq(s, 1, 2) = "0x" /\ IsHexDigits(SubSeq(s, 3, Len(s)))
IsNumberText(s) == IsDecimalText(s) \/ IsHexText(s)

\* A decimal text without a leading zero, or a hexadecimal text.
IsPlainNumberText(s) ==
    \/ IsHexText(s)
    \/ IsDecimalText(s) /\ (Len(s) = 1 \/ Head(s) # "0")

RECURSIVE NatOfDigits(_, _, _)
NatOfDigits(s, base, n) ==
    IF s = "" THEN n
    ELSE NatOfDigits(Tail(s), base, NatMulAdd(n, base, DigitVal(Head(s))))

\* The natural number a number text writes (exact, of any size).
NumberOf(s) ==
    IF IsHexText(s) THEN NatOfDigits(SubSeq(s, 3, Len(s)), 16, <<>>)
    ELSE NatOfDigits(s, 10, <<>>)

\* n < 2^bits.
FitsIn(n, bits) ==
    \/ Len(n) <= bits \div 8
    \/ bits % 8 # 0 /\ Len(n) = bits \div 8 + 1 /\ n[Len(n)] < 2 ^ (bits % 8)

\* The lines the scanner has returned so far, and among them those read
\* since the last line that ended a record.
LinesRead == FileLines(SubSeq(buf, 1, pos))

RECURSIVE LastRun(_)
LastRun(lines) ==
    IF lines = <<>> \/ EndsRecord(lines[Len(lines)]) THEN <<>>
    ELSE Append(LastRun(SubSeq(lines, 1, Len(lines) - 1)), lines[Len(lines)])

\* The step of scanProc that appends the accumulator to o.CPUs.
Flushes == pc = "scan" /\ pc' = "scan" /\ Len(o'.CPUs) = Len(o.CPUs) + 1


(***************************************************************************)
(* The claims about scanProc.                                              *)
(***************************************************************************)

\* The accumulator a run of lines gives when it starts from the zero CPU.
RECURSIVE ApplyLines(_, _)
ApplyLines(acc, lines) ==
    IF lines = <<>> THEN acc
    ELSE ApplyLines(lineCPU(acc, Head(lines)), Tail(lines))

\* C1: every record appended to Info.CPUs reflects only the lines read
\* since the previous empty-key line: it is the record those lines give
\* on a fresh, zero accumulator.
C1_FlushedRecordIsFresh ==
    [][Flushes => o'.CPUs[Len(o'.CPUs)] = ApplyLines(ZeroCPU, LastRun(LinesRead))]_vars

\* A file of records, each a run of recognised lines and then one blank
\* line.
WellFormedFile(file) ==
    /\ file = "" \/ HasSuffix(file, "\n")
    /\ \A i \in 1..Len(FileLines(file)) :
          FileLines(file)[i] = "" \/ Recognised(FileLines(file)[i])
    /\ FileLines(file) # <<>> => FileLines(file)[Len(FileLines(file))] = ""

NumRecords(file) ==
    Cardinality({i \in 1..Len(FileLines(file)) : FileLines(file)[i] = ""})

\* C2: on a file of n well-formed records, in any order of processor
\* index, scanProc leaves exactly n entries in Info.CPUs, in non-decreasing
\* order of Proc.
C2_RecordsCountedAndSorted ==
    (pc = "done" /\ WellFormedFile(buf)) =>
        /\ Len(o.CPUs) = NumRecords(buf)
        /\ \A i, j \in 1..Len(o.CPUs) :
              i < j => ~IntLess(o.CPUs[j].Proc, o.CPUs[i].Proc)

\* C2's case: two records, the higher processor index first.
C2_Witness ==
    /\ pc = "done"
    /\ buf = "processor\t: 1\n\nprocessor\t: 0\n\n"
    /\ Len(o.CPUs) = 2
    /\ o.CPUs[1].Proc = <<>>
    /\ o.CPUs[2].Proc = <<1>>

\* C4: every line of an unrecognised, non-empty key is in Info.Misc as the
\* pair of its trimmed key and its trimmed text after the first colon, and
\* Info.Misc holds as many pairs as the file has such lines, flushed
\* record or not.
C4_UnrecognisedKeysKept ==
    pc = "done" =>
        /\ \A i \in 1..Len(FileLines(buf)) :
              Unrecognised(FileLines(buf)[i]) =>
                  \E j \in 1..Len(o.Misc) :
                      o.Misc[j] = Pair(KeyText(FileLines(buf)[i]),
                                       ValueText(FileLines(buf)[i]))
        /\ Len(o.Misc) =
              Cardinality({i \in 1..Len(FileLines(buf)) :
                              Unrecognised(FileLines(buf)[i])})

\* C4's case: two unrecognised lines in a record that is never flushed.
C4_Witness ==
    /\ pc = "done"
    /\ o.CPUs = <<>>
    /\ o.Misc = <<Pair("Hardware", "BCM2711"), Pair("Model", "Pi 4")>>
    /\ buf = "Model\t\t: Pi 4\nprocessor\t: 1\nHardware\t: BCM2711"

\* The value text of the file's line of key k, for a file with one.
ValueOfKey(file, k) ==
    LET i == CHOOSE i \in 1..Len(FileLines(file)) :
                 HasColon(FileLines(file)[i]) /\ KeyText(FileLines(file)[i]) = k
    IN  ValueText(FileLines(file)[i])

HasKey(file, k) ==
    \E i \in 1..Len(FileLines(file)) :
        HasColon(FileLines(file)[i]) /\ KeyText(FileLines(file)[i]) = k

C10_MatchesKeysRecognised ==
    /\ \A i \in 1..Len(o.Misc) : o.Misc[i].Key \notin MatchesKeys
    /\ (pc = "done" /\ buf = "cores\t: 4\n\n") => o.CPUs[1].Cores = <<4>>
    /\ (pc = "done" /\ buf = "fpu_exceptions\t: yes\n\n") => o.CPUs[1].FPUExceptions


(***************************************************************************)
(* Detect on the sysctl platform: detect and detectM1 read the host's      *)
(* sysctl store.  sysctl, sysctl32 and sysctl64 drop the error, so a name  *)
(* the host does not answer reads as "" or 0.                              *)
(***************************************************************************)

MaxPerfLevels == 2
MaxCores == 2

\* famFireIce = 0x1b588bb3 as an int.
famFireIce == <<179, 139, 88, 27>>

\* fmt.Sprintf("hw.perflevel%d.<leaf>", lvl) for lvl < 10.
perflevel(lvl, leaf) ==
    "hw.perflevel" \o SubSeq("0123456789", lvl + 1, lvl + 1) \o "." \o leaf

\* A sysctl store: the CPU family and subfamily, the kernel version, the
\* number of performance levels and of cores at each level are the
\* host's; the other answers are those of an M1.
Store(fam, sub, kern, lvls, cores) ==
    [n \in {"kern.version", "kern.osversion", "hw.cpufamily", "hw.cpusubfamily",
            "machdep.cpu.brand_string", "machdep.virtual_address_size",
            "hw.cachelinesize", "hw.nperflevels", "hw.model"}
           \cup {perflevel(l, leaf) :
                    l \in 0..(MaxPerfLevels - 1),
                    leaf \in {"l1icachesize", "l1dcachesize", "l2cachesize",
                              "physicalcpu"}} |->
        CASE n = "kern.version" -> kern
          [] n = "kern.osversion" -> "21E258"
          [] n = "hw.cpufamily" -> fam
          [] n = "hw.cpusubfamily" -> sub
          [] n = "machdep.cpu.brand_string" -> "Apple M1"
          [] n = "machdep.virtual_address_size" -> <<47>>
          [] n = "hw.cachelinesize" -> <<128>>
          [] n = "hw.nperflevels" -> Nat2Bytes(lvls)
          [] n = "hw.model" -> "MacBookPro18,2"
          [] \E l \in 0..(MaxPerfLevels - 1) : n = perflevel(l, "physicalcpu") ->
                Nat2Bytes(cores[CHOOSE l \in 0..(MaxPerfLevels - 1) :
                                    n = perflevel(l, "physicalcpu")])
          [] \E l \in 0..(MaxPerfLevels - 1) : n = perflevel(l, "l2cachesize") ->
                <<0, 0, 192>>
          [] OTHER -> <<0, 0, 2>>]

sysctl(s) == sys[s]
sysctl32(s) == sys[s]
sysctl64(s) == sys[s]

\* detectM1's brand: the brand string and the subfamily's suffix.
brand ==
    CASE sysctl32("hw.cpusubfamily") = <<4>> ->
            sysctl("machdep.cpu.brand_string") \o " Pro"
      [] sysctl32("hw.cpusubfamily") = <<5>> ->
            sysctl("machdep.cpu.brand_string") \o " Max"
      [] OTHER -> sysctl("machdep.cpu.brand_string")

\* detectM1's CPU number proc of performance level lvl.
m1CPU(proc, lvl) ==
    [ZeroCPU EXCEPT
        !.Proc = Nat2Bytes(proc),
        !.Impl = Apple,
        !.Model = famFireIce,
        !.ModelName = brand,
        !.Cache = [ZeroCache EXCEPT
                      !.Inst = sysctl32(perflevel(lvl, "l1icachesize")),
                      !.L1 = sysctl32(perflevel(lvl, "l1dcachesize")),
                      !.L2 = sysctl32(perflevel(lvl, "l2cachesize")),
                      !.Alignment = Wrap(sysctl64("hw.cachelinesize"), UintSize)],
        !.Arch = <<8>>,
        !.MicroArch = IF lvl = 0 THEN "Firestorm" ELSE "Icestorm",
        !.AddrSizes = [Phys |-> <<>>, Virt |-> sysctl32("machdep.virtual_address_size")]]

\* detectM1's inner loop, "for i := 0; i < cores; i++".
RECURSIVE m1Cores(_, _, _, _)
m1Cores(cpus, lvl, i, cores) ==
    IF i < cores
    THEN m1Cores(Append(cpus, m1CPU(Len(cpus), lvl)), lvl, i + 1, cores)
    ELSE cpus

\* detectM1's outer loop, "for lvl := 0; lvl < lvls; lvl++".
RECURSIVE m1Levels(_, _, _)
m1Levels(cpus, lvl, lvls) ==
    IF lvl < lvls
    THEN m1Levels(m1Cores(cpus, lvl, 0, Small(sysctl32(perflevel(lvl, "physicalcpu")))),
                  lvl + 1, lvls)
    ELSE cpus

detectM1(info) ==
    [CPUs |-> m1Levels(info.CPUs, 0, Small(sysctl32("hw.nperflevels"))),
     Misc |-> Append(info.Misc, Pair("Model", sysctl("hw.model")))]

\* detect of the sysctl platform.
detect ==
    LET v == [CPUs |-> <<>>,
              Misc |-> <<Pair("Kernel Version", sysctl("kern.version")),
                         Pair("OS Version", sysctl("kern.osversion"))>>]
    IN  IF sysctl32("hw.cpufamily") = famFireIce THEN detectM1(v) ELSE v

InitSysctl ==
    /\ \E fam \in {famFireIce, <<1>>}, sub \in {<<>>, <<2>>, <<4>>, <<5>>},
          kern \in {"", "Darwin Kernel Version 21.4.0"},
          lvls \in 0..MaxPerfLevels,
          cores \in [0..(MaxPerfLevels - 1) -> 0..MaxCores] :
          sys = Store(fam, sub, kern, lvls, cores)
    /\ buf = ""
    /\ pos = 0
    /\ c = ZeroCPU
    /\ o = ZeroInfo
    /\ pc = "call"
    /\ arg = NoCall
    /\ ret = <<>>

\* Detect: the Info detect returns.
DetectSysctl ==
    /\ pc = "call"
    /\ sys # NoSysctl
    /\ o' = detect
    /\ pc' = "done"
    /\ UNCHANGED <<buf, pos, c, sys, arg, ret>>

\* Detect on the sysctl platform.
SpecSysctl == InitSysctl /\ [][DetectSysctl]_vars

\* C3: the Info that Detect returns has Misc in ascending order of Key, on
\* the textual platform and on the sysctl platform.
C3_MiscSorted ==
    pc = "done" =>
        \A i, j \in 1..Len(o.Misc) : i < j => ~StrLess(o.Misc[j].Key, o.Misc[i].Key)


(***************************************************************************)
(* CPU.Name on every implementer and on every part at or next to a code    *)
(* that a part table lists.                                                *)
(***************************************************************************)

\* The parts each name function lists.
ArmParts ==
    {ARM926EJS, ARM11MPCore, ARM1136JS, ARM1156T2S, ARM1176JZS, CortexA8,
     CortexA9, CortexA15, CortexM0, CortexM3, CortexM4, CortexM55, CortexA34,
     CortexA35, CortexA53, CortexA55, CortexA57, CortexA72, CortexA73,
     CortexA75, CortexA76, CortexA77, CortexA78, CortexX1, CortexX1C,
     NeoverseN1, NeoverseN2, NeoverseV1, Firestorm, Icestorm}
BroadcomParts == {ThunderX2T99, ThunderX2T99_2, ThunderXT88}
FujitsuParts == {A64FX}
NvidiaParts == {Carmel}
HiSiliconParts == {TSV110}
QualcommParts ==
    {Krait, Kryo, Kryo_2, Kryo_3, Kryo2xxGold, Kryo2xxSilver, Kryo3xxGold,
     Kryo3xxSilver, Kryo4xxGold, Kryo4xxSilver, Falkor, Saphira}

\* The implementers CPU.Name has a case for, and the parts of their tables.
TableImplementers ==
    {ARMLtd, Broadcom, Cavium, Fujitsu, NVIDIA, HiSilicon, Qualcomm, Samsung}

PartTable(impl) ==
    CASE impl = ARMLtd -> ArmParts
      [] impl \in {Broadcom, Cavium} -> BroadcomParts
      [] impl = Fujitsu -> FujitsuParts
      [] impl = NVIDIA -> NvidiaParts
      [] impl = HiSilicon -> HiSiliconParts
      [] impl = Qualcomm -> QualcommParts
      [] OTHER -> {}

ListedParts ==
    ArmParts \cup BroadcomParts \cup FujitsuParts \cup NvidiaParts
        \cup HiSiliconParts \cup QualcommParts

\* The parts the model calls Name on: the listed ones, their neighbours
\* and the two ends of uint16.
PartCodes ==
    {0, 65535} \cup ListedParts \cup {p + 1 : p \in ListedParts}
        \cup {p - 1 : p \in ListedParts}

InitName ==
    /\ \E i \in 0..255, p \in PartCodes : c = [ZeroCPU EXCEPT !.Impl = i, !.Part = p]
    /\ buf = ""
    /\ pos = 0
    /\ o = ZeroInfo
    /\ pc = "call"
    /\ sys = NoSysctl
    /\ arg = [fn |-> "Name", s |-> ""]
    /\ ret = <<>>

\* A call of c.Name().
CallName ==
    /\ pc = "call"
    /\ arg.fn = "Name"
    /\ ret' = Name(c)
    /\ pc' = "done"
    /\ UNCHANGED <<buf, pos, c, o, sys, arg>>

\* CPU.Name on one CPU.
SpecName == InitName /\ [][CallName]_vars

\* C6: CPU.Name returns a name for every (Impl, Part): "generic" exactly
\* when Impl has no part table or Part is not in Impl's table, and
\* otherwise the table's name (the same name for the codes of one family).
C6_NameTotal ==
    (pc = "done" /\ arg.fn = "Name") =>
        /\ ret \in STRING
        /\ ret = "generic" <=>
              (c.Impl \notin TableImplementers \/ c.Part \notin PartTable(c.Impl))
        /\ (c.Impl = ARMLtd /\ c.Part = CortexA72) => ret = "Cortex-A72"
        /\ (c.Impl \in {Broadcom, Cavium} /\ c.Part \in {ThunderX2T99, ThunderX2T99_2}) =>
              ret = "ThunderX2T99"
        /\ (c.Impl = Qualcomm /\ c.Part \in {Kryo, Kryo_2, Kryo_3}) => ret = "Kryo"

\* C6's case: Name has been called on a part that a table lists, under
\* the implementer that shares Broadcom's table, and has returned its name.
C6_Witness ==
    /\ pc = "done"
    /\ arg.fn = "Name"
    /\ c.Impl = Cavium
    /\ c.Part = ThunderXT88
    /\ ret = "ThunderXT88"


(***************************************************************************)
(* The value decoders on texts built from number texts and the pieces of   *)
(* each format, whole and damaged.                                         *)
(***************************************************************************)

SizeInputs ==
    {n \o gap \o unit :
        n \in NumberTexts, gap \in {"", " ", "  "}, unit \in {"", "KB", "MB", "GB", "kb"}}

AddrInputs ==
    {p \o mid \o v \o tail :
        p \in NumberTexts, v \in NumberTexts,
        mid \in {" bits physical, ", " bits physical,", " bits, "},
        tail \in {" bits virtual", ""}}

TLBInputs ==
    {n \o gap \o k \o unit \o tail :
        n \in NumberTexts, k \in NumberTexts,
        gap \in {" ", ""}, unit \in {"K", "M", ""}, tail \in {" pages", ""}}

\* Texts for atoi: the number texts, the other forms of Go's integer
\* literals, signs and blanks, and the values around 2^63 and 2^64.
AtoiInputs ==
    NumberTexts \cup
    {"0b11", "0o17", "017", "1_000", "0X1F", "-1", "+1", " 1", "1e3",
     "9223372036854775807", "9223372036854775808", "18446744073709551615"}

\* Lines for split: with no colon, with one and with several, with and
\* without blanks around the key and the value.
SplitInputs ==
    ProcLines \cup
    {" ", "\t", "no colon", " no colon ", ":", " : ", "key:", ":value",
     " key : value ", "a:b:c", "a : b : c\t", "key:\tvalue"}

\* The decoder calls the model makes.
ParseCalls ==
    {[fn |-> "parseSize", s |-> x] : x \in SizeInputs}
            \cup {[fn |-> "atoi", s |-> x] : x \in AtoiInputs}
            \cup {[fn |-> "split", s |-> x] : x \in SplitInputs}
            \cup {[fn |-> "cache size", s |-> x] : x \in SizeInputs}
            \cup {[fn |-> "parseAddrSizes", s |-> x] : x \in AddrInputs}
            \cup {[fn |-> "parseTLB", s |-> x] : x \in TLBInputs}

InitParse ==
    /\ arg \in ParseCalls
    /\ buf = ""
    /\ pos = 0
    /\ c = ZeroCPU
    /\ o = ZeroInfo
    /\ pc = "call"
    /\ sys = NoSysctl
    /\ ret = <<>>

\* A call of parseSize(arg.s).
CallParseSize ==
    /\ pc = "call"
    /\ arg.fn = "parseSize"
    /\ ret' = IF parseSizeRuns(arg.s) THEN parseSize(arg.s) ELSE ret
    /\ pc' = IF parseSizeRuns(arg.s) THEN "done" ELSE "panic"
    /\ UNCHANGED <<buf, pos, c, o, sys, arg>>

\* scanProc's loop body on a "cache size" line whose value is arg.s.
ScanCacheSize ==
    /\ pc = "call"
    /\ arg.fn = "cache size"
    /\ c' = IF lineRuns("cache size\t: " \o arg.s)
            THEN lineCPU(c, "cache size\t: " \o arg.s) ELSE c
    /\ pc' = IF lineRuns("cache size\t: " \o arg.s) THEN "done" ELSE "panic"
    /\ UNCHANGED <<buf, pos, o, sys, arg, ret>>

\* A call of parseAddrSizes(arg.s).
CallParseAddrSizes ==
    /\ pc = "call"
    /\ arg.fn = "parseAddrSizes"
    /\ ret' = IF parseAddrSizesRuns(arg.s) THEN parseAddrSizes(arg.s) ELSE ret
    /\ pc' = IF parseAddrSizesRuns(arg.s) THEN "done" ELSE "panic"
    /\ UNCHANGED <<buf, pos, c, o, sys, arg>>

\* A call of parseTLB(arg.s).
CallParseTLB ==
    /\ pc = "call"
    /\ arg.fn = "parseTLB"
    /\ ret' = IF parseTLBRuns(arg.s) THEN parseTLB(arg.s) ELSE ret
    /\ pc' = IF parseTLBRuns(arg.s) THEN "done" ELSE "panic"
    /\ UNCHANGED <<buf, pos, c, o, sys, arg>>

\* A call of atoi(arg.s).
CallAtoi ==
    /\ pc = "call"
    /\ arg.fn = "atoi"
    /\ ret' = atoi(arg.s)
    /\ pc' = "done"
    /\ UNCHANGED <<buf, pos, c, o, sys, arg>>

\* A call of split(arg.s).
CallSplit ==
    /\ pc = "call"
    /\ arg.fn = "split"
    /\ ret' = IF splitRuns(arg.s) THEN split(arg.s) ELSE ret
    /\ pc' = IF splitRuns(arg.s) THEN "done" ELSE "panic"
    /\ UNCHANGED <<buf, pos, c, o, sys, arg>>

NextParse ==
    \/ CallParseSize
    \/ ScanCacheSize
    \/ CallParseAddrSizes
    \/ CallParseTLB
    \/ CallAtoi
    \/ CallSplit

\* One call of one decoder.
SpecParse == InitParse /\ [][NextParse]_vars

\* Vocabulary of the decoder claims.
DropLast(s, n) == IF Len(s) <= n THEN "" ELSE SubSeq(s, 1, Len(s) - n)
LastChar(s) == IF s = "" THEN "" ELSE SubSeq(s, Len(s), Len(s))
HasSpace(s) == \E i \in 1..Len(s) : SubSeq(s, i, i) = " "
FirstSpace(s) ==
    CHOOSE i \in 1..Len(s) :
        SubSeq(s, i, i) = " " /\ \A j \in 1..(i - 1) : SubSeq(s, j, j) # " "
BeforeSpace(s) == SubSeq(s, 1, FirstSpace(s) - 1)
AfterSpace(s) == SubSeq(s, FirstSpace(s) + 1, Len(s))

\* The Go int r is the natural number n.
IsInt(r, n) == FitsIn(n, UintSize - 1) /\ r = n

\* An unsigned number text; with plain, one without a leading zero.
IsNumber(s, plain) == IF plain THEN IsPlainNumberText(s) ELSE IsNumberText(s)

SizeFactor(u) == IF u = "KB" THEN 1024 ELSE 1024 * 1024

\* r is the size the text s writes: n times the factor of the unit for
\* "<n> KB" and "<n> MB", and 0 when s has no unit or another unit.  With
\* plain, only for n without a leading zero and a product below 2^63.
SizeDecoded(s, r, plain) ==
    /\ \A u \in {"KB", "MB"} :
          LET n == DropLast(s, 3)
              size == NatMulAdd(NumberOf(n), SizeFactor(u), 0)
          IN  (/\ HasSuffix(s, " " \o u)
               /\ IsNumber(n, plain)
               /\ plain => FitsIn(size, UintSize - 1))
                  => IsInt(r, size)
    /\ (~HasSpace(s) \/ AfterSpace(s) \notin {"KB", "MB"}) => r = <<>>

\* C7 as stated: parseSize returns n*1024 for every "<n> KB" and
\* n*1024*1024 for every "<n> MB" with n an unsigned number, and 0 when
\* the unit is missing or another string; a "cache size" line stores the
\* result in Cache.L2.
C7_EverySizeDecoded ==
    /\ (pc = "done" /\ arg.fn = "parseSize") => SizeDecoded(arg.s, ret, FALSE)
    /\ (pc = "done" /\ arg.fn = "cache size") =>
          SizeDecoded(TrimSpace(arg.s), c.Cache.L2, FALSE)

\* C7, amended: parseSize returns n*1024 for "<n> KB" and n*1024*1024 for
\* "<n> MB" when n is written in decimal without a leading zero or in
\* hexadecimal after "0x" and the product is below 2^63, and 0 when the
\* unit is missing or another string; a "cache size" line stores the
\* result in Cache.L2.
C7_PlainSizeDecoded ==
    /\ (pc = "done" /\ arg.fn = "parseSize") => SizeDecoded(arg.s, ret, TRUE)
    /\ (pc = "done" /\ arg.fn = "cache size") =>
          SizeDecoded(TrimSpace(arg.s), c.Cache.L2, TRUE)

\* C7's case: a hexadecimal count of megabytes has been decoded.
C7_Witness ==
    /\ pc = "done"
    /\ arg = [fn |-> "parseSize", s |-> "0x41 MB"]
    /\ ret = Nat2Bytes(65 * 1024 * 1024)

AddrMid == " bits physical, "
AddrEnd == " bits virtual"
AddrPhys(s) == SubSeq(s, 1, Index(s, AddrMid))
AddrVirt(s) == SubSeq(s, Index(s, AddrMid) + Len(AddrMid) + 1, Len(s) - Len(AddrEnd))

\* s is exactly "<p> bits physical, <v> bits virtual".
IsAddrText(s, plain) ==
    /\ Index(s, AddrMid) >= 0
    /\ HasSuffix(s, AddrEnd)
    /\ Len(s) >= Index(s, AddrMid) + Len(AddrMid) + Len(AddrEnd)
    /\ IsNumber(AddrPhys(s), plain)
    /\ IsNumber(AddrVirt(s), plain)

\* C8: parseAddrSizes returns (p, v) for "<p> bits physical, <v> bits
\* virtual" (here only asked of p and v without a leading zero and below
\* 2^63) and (0, 0) for every other s, never one component of the input
\* next to a defaulted one.
C8_AddrSizesAllOrNothing ==
    (pc = "done" /\ arg.fn = "parseAddrSizes") =>
        /\ (/\ IsAddrText(arg.s, TRUE)
            /\ FitsIn(NumberOf(AddrPhys(arg.s)), UintSize - 1)
            /\ FitsIn(NumberOf(AddrVirt(arg.s)), UintSize - 1))
              => ret = [phys |-> NumberOf(AddrPhys(arg.s)),
                        virt |-> NumberOf(AddrVirt(arg.s))]
        /\ ~IsAddrText(arg.s, FALSE) => ret = [phys |-> <<>>, virt |-> <<>>]

TLBBody(s) == DropLast(DropLast(s, Len(" pages")), 1)
TLBUnit(s) == LastChar(DropLast(s, Len(" pages")))

\* The trailing " pages", the K/M unit character, the separating space
\* or one of the two numbers is missing.
TLBMalformed(s) ==
    \/ ~HasSuffix(s, " pages")
    \/ TLBUnit(s) \notin {"K", "M"}
    \/ ~HasSpace(TLBBody(s))
    \/ BeforeSpace(TLBBody(s)) = ""
    \/ AfterSpace(TLBBody(s)) = ""

\* C9: parseTLB returns (n, k*1024) for "<n> <k>K pages" and
\* (n, k*1024*1024) for "<n> <k>M pages" (here only asked of n and k
\* without a leading zero and results below 2^63), and (0, 0) whenever the
\* trailing " pages", the unit character, the separating space or either
\* number is missing.
C9_TLBDecodedOrZero ==
    (pc = "done" /\ arg.fn = "parseTLB") =>
        /\ ~TLBMalformed(arg.s) =>
              LET n == BeforeSpace(TLBBody(arg.s))
                  k == AfterSpace(TLBBody(arg.s))
                  unit == IF TLBUnit(arg.s) = "K" THEN 1024 ELSE 1024 * 1024
                  page == NatMulAdd(NumberOf(k), unit, 0)
              IN  (/\ IsPlainNumberText(n)
                   /\ IsPlainNumberText(k)
                   /\ FitsIn(NumberOf(n), UintSize - 1)
                   /\ FitsIn(page, UintSize - 1))
                      => ret = [n |-> NumberOf(n), page |-> page]
        /\ TLBMalformed(arg.s) => ret = [n |-> <<>>, page |-> <<>>]


\* C13: atoi returns the value of a decimal or "0x" hexadecimal digit
\* string (here only asked of texts without a leading zero and values
\* below 2^63), 0 for a digit string whose value an int cannot hold, and
\* never a negative number.
C13_AtoiValueOrZero ==
    (pc = "done" /\ arg.fn = "atoi") =>
        /\ (IsPlainNumberText(arg.s) /\ FitsIn(NumberOf(arg.s), UintSize - 1)) =>
              ret = NumberOf(arg.s)
        /\ (IsNumberText(arg.s) /\ ~FitsIn(NumberOf(arg.s), UintSize - 1)) =>
              ret = <<>>
        /\ ~IsNegative(ret)

\* C14 as stated: split returns an empty key and an empty value for every
\* line without a colon, and the trimmed texts before and after the first
\* colon for a line with one.
C14_SplitNoColonEmpty ==
    (pc = "done" /\ arg.fn = "split") =>
        IF HasColon(arg.s) THEN ret = [key |-> KeyText(arg.s), value |-> ValueText(arg.s)]
        ELSE ret = [key |-> "", value |-> ""]

\* C14, amended: for a line without a colon split returns an empty key and
\* the whole trimmed line as value (empty only for a blank line); for a
\* line with a colon it returns the trimmed texts before and after the
\* first colon.
C14_SplitNoColonWholeLine ==
    (pc = "done" /\ arg.fn = "split") =>
        IF HasColon(arg.s) THEN ret = [key |-> KeyText(arg.s), value |-> ValueText(arg.s)]
        ELSE ret = [key |-> "", value |-> TrimSpace(arg.s)]

\* C14's case: split has run on a line of text without a colon.
C14_Witness ==
    /\ pc = "done"
    /\ arg = [fn |-> "split", s |-> " no colon "]
    /\ ret = [key |-> "", value |-> "no colon"]


(***************************************************************************)
(* The claims about the report scanProc returns.                           *)
(***************************************************************************)

\* How often x occurs in the sequence s.
Count(s, x) == Cardinality({i \in 1..Len(s) : s[i] = x})

\* The sequences a and b hold the same elements, each as often.
SameElements(a, b) ==
    /\ Len(a) = Len(b)
    /\ \A i \in 1..Len(a) : Count(a, a[i]) = Count(b, a[i])

\* The order the report documents: CPUs by Proc, Misc by Key.
KeyBefore(by, a, b) ==
    IF by = "CPUs" THEN IntLess(a.Proc, b.Proc) ELSE StrLess(a.Key, b.Key)

\* The sequence s is in non-decreasing order of the key of the slice by.
SortedBy(s, by) == \A i, j \in 1..Len(s) : i < j => ~KeyBefore(by, s[j], s[i])

\* The lines of the whole file that end a record, by index.
Separators == {i \in 1..Len(FileLines(buf)) : EndsRecord(FileLines(buf)[i])}

\* The Pair an unrecognised line is kept as.
PairOf(line) == Pair(KeyText(line), ValueText(line))

\* C15 as stated: no two entries of Info.CPUs are equal and no two
\* entries of Info.Misc are equal.
C15_ReportDeduplicated ==
    pc = "done" =>
        /\ \A i, j \in 1..Len(o.CPUs) : i # j => o.CPUs[i] # o.CPUs[j]
        /\ \A i, j \in 1..Len(o.Misc) : i # j => o.Misc[i] # o.Misc[j]

\* C15, amended: the report is not deduplicated.  Info.CPUs holds one
\* entry for every empty-key line, and Info.Misc holds the pair of an
\* unrecognised line as often as the input holds a line of that key and
\* value.
C15_OneEntryPerLine ==
    pc = "done" =>
        /\ Len(o.CPUs) = Cardinality(Separators)
        /\ Len(o.Misc) =
              Cardinality({i \in 1..Len(FileLines(buf)) : Unrecognised(FileLines(buf)[i])})
        /\ \A i \in 1..Len(FileLines(buf)) :
              Unrecognised(FileLines(buf)[i]) =>
                  Count(o.Misc, PairOf(FileLines(buf)[i])) =
                      Cardinality({j \in 1..Len(FileLines(buf)) :
                          /\ Unrecognised(FileLines(buf)[j])
                          /\ PairOf(FileLines(buf)[j]) = PairOf(FileLines(buf)[i])})

\* C15's case: two consecutive empty-key lines and a repeated unrecognised
\* line have left two equal CPU records and two equal pairs.
C15_Witness ==
    /\ pc = "done"
    /\ Len(o.CPUs) = 2
    /\ o.CPUs[1] = o.CPUs[2]
    /\ Len(o.Misc) = 2
    /\ o.Misc[1] = o.Misc[2]

\* The stable sort of s: each element is put behind the elements that are
\* not greater than it.
RECURSIVE StableSorted(_, _)
StableSorted(s, by) ==
    IF s = <<>> THEN <<>>
    ELSE LET front == StableSorted(SubSeq(s, 1, Len(s) - 1), by)
             x == s[Len(s)]
             k == Cardinality({i \in 1..Len(front) : ~KeyBefore(by, x, front[i])})
         IN  SubSeq(front, 1, k) \o <<x>> \o SubSeq(front, k + 1, Len(front))

\* The step of scanProc that sorts the report and returns.
Sorts == pc = "scan" /\ pc' = "done"

TrailingRun == LastRun(FileLines(buf))

\* C17: a trailing record that no empty-key line follows is never
\* flushed.  Info.CPUs holds one entry for every empty-key line, each
\* the accumulator as the lines up to one of them left it, so the lines
\* behind the last of them reach no entry; their unrecognised keys are
\* in Info.Misc all the same.
C17_TrailingRecordNotFlushed ==
    (pc = "done" /\ TrailingRun # <<>>) =>
        /\ Len(o.CPUs) = Cardinality(Separators)
        /\ \A i \in 1..Len(o.CPUs) :
              \E k \in Separators :
                  o.CPUs[i] = ApplyLines(ZeroCPU, SubSeq(FileLines(buf), 1, k))
        /\ \A i \in 1..Len(TrailingRun) :
              Unrecognised(TrailingRun[i]) =>
                  \E j \in 1..Len(o.Misc) : o.Misc[j] = PairOf(TrailingRun[i])

\* C17's case: the file ends in a record of processor 1 with an
\* unrecognised key and without an empty-key line; the report holds the
\* record of processor 0 alone, and the pair.
C17_Witness ==
    /\ pc = "done"
    /\ Len(TrailingRun) = 2
    /\ c.Proc = <<1>>
    /\ Len(o.CPUs) = 1
    /\ o.CPUs[1].Proc = <<>>
    /\ Len(o.Misc) = 1


\* The tokens of a text that single spaces separate, in order: the
\* non-empty stretches between spaces.
RECURSIVE Tokens(_)
Tokens(v) ==
    IF v = "" THEN <<>>
    ELSE IF ~HasSpace(v) THEN <<v>>
    ELSE IF BeforeSpace(v) = "" THEN Tokens(AfterSpace(v))
    ELSE <<BeforeSpace(v)>> \o Tokens(AfterSpace(v))

\* C18: after a "Features", "flags" or "bugs" line the Features or Bugs
\* field of the accumulator holds the tokens of the line's value in
\* order, none of them empty, and an empty sequence for an empty value.
C18_TokensWithoutEmpty ==
    LET line == FileLines(buf)[1]
    IN  (pc = "done" /\ HasColon(FileLines(buf)[1])) =>
            /\ KeyText(line) \in {"Features", "flags"} =>
                  c.Features = Tokens(ValueText(line))
            /\ KeyText(line) = "bugs" => c.Bugs = Tokens(ValueText(line))


(***************************************************************************)
(* Implementer.String, as stringer generated it, and MarshalText.          *)
(***************************************************************************)

Implementer_name_0 == "ARM LtdBroadcomCavium"
Implementer_name_1 == "Fujitsu Ltd"
Implementer_name_2 == "HiSilicon Technologies Inc"
Implementer_name_3 == "NVIDIA Corporation"
Implementer_name_4 == "Qualcomm Technologies Inc"
Implementer_name_5 == "Samsung Technologies Inc"
Implementer_name_6 == "Apple Inc"
Implementer_name_7 == "Intel ARM parts"

\* The offsets of the three names in Implementer_name_0 and its length.
Implementer_index_0 == <<0, 7, 15, 21>>

\* strconv.FormatInt(n, 10) of a number that is not negative.
RECURSIVE FormatInt(_)
FormatInt(n) ==
    IF n < 10 THEN Slice("0123456789", n, n + 1)
    ELSE FormatInt(n \div 10) \o Slice("0123456789", n % 10, (n % 10) + 1)

\* String with the two names behind the upper-case codes exchanged.
String_swapped(i) ==
    CASE 65 <= i /\ i <= 67 ->
            Slice(Implementer_name_0, Implementer_index_0[i - 65 + 1],
                  Implementer_index_0[i - 65 + 2])
      [] i = 70 -> Implementer_name_1
      [] i = 72 -> Implementer_name_2
      [] i = 78 -> Implementer_name_3
      [] i = 81 -> Implementer_name_4
      [] i = 83 -> Implementer_name_5
      [] i = 97 -> Implementer_name_7
      [] i = 105 -> Implementer_name_6
      [] OTHER -> "Implementer(" \o FormatInt(i) \o ")"

\* Implementer.String.
String(i) ==
    CASE 65 <= i /\ i <= 67 ->
            Slice(Implementer_name_0, Implementer_index_0[i - 65 + 1],
                  Implementer_index_0[i - 65 + 2])
      [] i = 70 -> Implementer_name_1
      [] i = 72 -> Implementer_name_2
      [] i = 78 -> Implementer_name_3
      [] i = 81 -> Implementer_name_4
      [] i = 83 -> Implementer_name_5
      [] i = 97 -> Implementer_name_6
      [] i = 105 -> Implementer_name_7
      [] OTHER -> "Implementer(" \o FormatInt(i) \o ")"

\* []byte(s): the bytes of a string.
Bytes(s) == [k \in 1..Len(s) |-> Ord(SubSeq(s, k, k))]

\* Implementer.MarshalText: the bytes of String and a nil error.
MarshalText(i) == [bytes |-> Bytes(String(i)), err |-> "nil"]

InitString ==
    /\ \E i \in 0..255 : c = [ZeroCPU EXCEPT !.Impl = i]
    /\ arg \in {[fn |-> "String", s |-> ""], [fn |-> "MarshalText", s |-> ""]}
    /\ buf = ""
    /\ pos = 0
    /\ o = ZeroInfo
    /\ pc = "call"
    /\ sys = NoSysctl
    /\ ret = <<>>

\* A call of c.Impl.String().
CallString ==
    /\ pc = "call"
    /\ arg.fn = "String"
    /\ ret' = String(c.Impl)
    /\ pc' = "done"
    /\ UNCHANGED <<buf, pos, c, o, sys, arg>>

\* A call of c.Impl.MarshalText().
CallMarshalText ==
    /\ pc = "call"
    /\ arg.fn = "MarshalText"
    /\ ret' = MarshalText(c.Impl)
    /\ pc' = "done"
    /\ UNCHANGED <<buf, pos, c, o, sys, arg>>

NextString == CallString \/ CallMarshalText

\* Implementer.String and Implementer.MarshalText on one Implementer.
SpecString == InitString /\ [][NextString]_vars

\* The vendor names the declarations of the ten codes give.
VendorName(i) ==
    CASE i = ARMLtd -> "ARM Ltd"
      [] i = Broadcom -> "Broadcom"
      [] i = Cavium -> "Cavium"
      [] i = Fujitsu -> "Fujitsu Ltd"
      [] i = NVIDIA -> "NVIDIA Corporation"
      [] i = HiSilicon -> "HiSilicon Technologies Inc"
      [] i = Qualcomm -> "Qualcomm Technologies Inc"
      [] i = Samsung -> "Samsung Technologies Inc"
      [] i = Intel -> "Intel ARM parts"
      [] i = Apple -> "Apple Inc"

NamedImplementers ==
    {ARMLtd, Broadcom, Cavium, Fujitsu, NVIDIA, HiSilicon, Qualcomm, Samsung,
     Intel, Apple}

\* The text s is "Implementer(<decimal code>)" for the code i: behind the
\* opening parenthesis it writes i in decimal without a leading zero.
IsFallback(s, i) ==
    LET open == "Implementer("
        digits == SubSeq(s, Len(open) + 1, Len(s) - 1)
    IN  /\ Len(s) > Len(open) + 1
        /\ SubSeq(s, 1, Len(open)) = open
        /\ LastChar(s) = ")"
        /\ IsDecimalText(digits)
        /\ IsPlainNumberText(digits)
        /\ NumberOf(digits) = Nat2Bytes(i)

\* The text String is to return for the code i.
IsNameOf(s, i) ==
    IF i \in NamedImplementers THEN s = VendorName(i) ELSE IsFallback(s, i)

\* C12: for every Implementer 0..255 String returns the vendor name of a
\* named code and "Implementer(<decimal code>)" for every other code, and
\* MarshalText returns the bytes of that text with a nil error.
C12_StringTotal ==
    /\ (pc = "done" /\ arg.fn = "String") => IsNameOf(ret, c.Impl)
    /\ (pc = "done" /\ arg.fn = "MarshalText") =>
          /\ ret.err = "nil"
          /\ ret.bytes = Bytes(String(c.Impl))
          /\ IsNameOf(String(c.Impl), c.Impl)

\* C12's case: MarshalText has returned the bytes of the fallback text
\* of the code 255.
C12_Witness ==
    /\ pc = "done"
    /\ arg.fn = "MarshalText"
    /\ c.Impl = 255
    /\ ret = [bytes |-> Bytes("Implementer(255)"), err |-> "nil"]


(***************************************************************************)
(* Every decoder call, and scanProc on buffers of two lines, whole,        *)
(* malformed and cut.                                                      *)
(***************************************************************************)

TotalLines ==
    {"", ":", "no colon", "processor", "processor\t: 18446744073709551616",
     "cache size\t: ", "cache size:KB", "cache size\t: 8 KB",
     "address sizes\t: ,", "address sizes\t: , x",
     "address sizes\t: 40 bits physical, ",
     "TLB size\t: pages", "TLB size\t: K pages", "TLB size\t: 1024 4K pages",
     "TLB size\t: x K pages", "flags\t:"}

LineEnds == {"", "\n", "\r\n"}

ScanBuffers ==
    {l1 \o e1 \o l2 \o e2 :
        l1 \in TotalLines, e1 \in LineEnds, l2 \in TotalLines, e2 \in LineEnds}

InitTotal ==
    /\ buf = ""
    /\ pos = 0
    /\ c = ZeroCPU
    /\ o = ZeroInfo
    /\ pc = "start"
    /\ sys = NoSysctl
    /\ arg = NoCall
    /\ ret = <<>>

\* A caller is about to call a decoder on some text.
StartCall ==
    /\ pc = "start"
    /\ arg' \in ParseCalls
    /\ pc' = "call"
    /\ UNCHANGED <<buf, pos, c, o, sys, ret>>

\* detect is about to call scanProc on some buffer.
StartScan ==
    /\ pc = "start"
    /\ buf' \in ScanBuffers
    /\ pc' = "scan"
    /\ UNCHANGED <<pos, c, o, sys, arg, ret>>

NextTotal == StartCall \/ StartScan \/ NextParse \/ NextScan

SpecTotal == InitTotal /\ [][NextTotal]_vars

\* C11: no input causes a fatal error.  No step reaches a slice
\* expression out of range; the one step of a call of split, parseSize,
\* parseAddrSizes or parseTLB returns a value; and every turn of
\* scanProc's loop moves the scanner forward inside the buffer, so after
\* at most len(buf) turns the scanner is at the end of the buffer, where
\* scanProc sorts and returns the report.
C11_NoFatalError ==
    /\ [](pc = "scan" => pos <= Len(buf))
    /\ [][/\ pc' # "panic"
          /\ pc = "call" => pc' = "done"
          /\ pc = "scan" =>
                \/ pc' = "scan" /\ pos < pos' /\ pos' <= Len(buf)
                \/ pc' = "done" /\ pos = Len(buf)]_vars

\* C11's case: scanProc has returned a report on a buffer of a malformed
\* line and a line cut before its newline.
C11_Witness ==
    /\ pc = "done"
    /\ buf = "address sizes\t: , x\r\nTLB size\t: K pages"
    /\ pos = Len(buf)
    /\ o = ZeroInfo

=============================================================================
